---- MODULE Spec2Model ----
(***************************************************************************)
(* Model of the six pydantic demonstration scripts (src/1_pydantic.py ..   *)
(* src/6_serialization.py).  Each script declares a Patient schema, builds *)
(* a Patient from the mapping patient_info and, in script 6,               *)
(* serialises it with model_dump.  The field declarations, validators and  *)
(* defaults are taken from the scripts; what a declaration does when it is *)
(* executed (lax/strict coercion, bounds, error accumulation, fields_set)  *)
(* is the behaviour of pydantic v2's BaseModel.                            *)
(*                                                                         *)
(* Python values are tagged records [t |-> tag, v |-> payload]:            *)
(*   int   : v an integer            str  : v a sequence of characters     *)
(*   float : v the value in 1/100    bool : v a BOOLEAN                    *)
(*   list  : v a sequence of values  dict : v a function key -> value      *)
(*   url   : v a sequence of characters (a parsed AnyUrl)                  *)
(*   model : v a function field -> value, set the fields_set (an Address)  *)
(*   none  : Python None                                                   *)
(***************************************************************************)
EXTENDS Integers, Sequences, FiniteSets, TLC

VARIABLES script, input, pc, out, opts, dump, out2, bmi

vars == <<script, input, pc, out, opts, dump, out2, bmi>>

\* ------------------------------------------------------------------ bounds
\* Integers are sampled within Delta of every numeric bound the scripts declare.
Delta == 1
\* Longest numeric-looking string given to an int field.
MaxStrLen == 2
\* Number of times calculate_bmi is read from one Patient.
MaxReads == 2

\* ------------------------------------------------------------------ values
PyNone == [t |-> "none"]
PyInt(n) == [t |-> "int", v |-> n]
PyFloat(h) == [t |-> "float", v |-> h]
PyStr(s) == [t |-> "str", v |-> s]
PyBool(b) == [t |-> "bool", v |-> b]
PyList(l) == [t |-> "list", v |-> l]
PyDict(d) == [t |-> "dict", v |-> d]
PyUrl(s) == [t |-> "url", v |-> s]
PyModel(d, s) == [t |-> "model", v |-> d, set |-> s]

Near(c) == (c - Delta)..(c + Delta)

Repeat(c, n) == [i \in 1..n |-> c]

\* ----------------------------------------------------------------- strings
Digits == {"0", "1", "2", "3", "4", "5", "6", "7", "8", "9"}

DigitVal(c) ==
    CASE c = "0" -> 0 [] c = "1" -> 1 [] c = "2" -> 2 [] c = "3" -> 3
      [] c = "4" -> 4 [] c = "5" -> 5 [] c = "6" -> 6 [] c = "7" -> 7
      [] c = "8" -> 8 [] c = "9" -> 9

IsDigits(s) == Len(s) > 0 /\ \A i \in 1..Len(s) : s[i] \in Digits

RECURSIVE DigitsVal(_)
DigitsVal(s) ==
    IF Len(s) = 0 THEN 0
    ELSE 10 * DigitsVal(SubSeq(s, 1, Len(s) - 1)) + DigitVal(s[Len(s)])

\* str -> int as the lax int validator parses it: an optional sign, then digits.
IntParses(s) ==
    \/ IsDigits(s)
    \/ Len(s) > 1 /\ s[1] \in {"-", "+"} /\ IsDigits(Tail(s))

ParseInt(s) ==
    IF IsDigits(s) THEN DigitsVal(s)
    ELSE IF s[1] = "-" THEN 0 - DigitsVal(Tail(s))
    ELSE DigitsVal(Tail(s))

\* Index of the first / last occurrence of character c in s, 0 when there is none.
IndexOf(s, c) ==
    IF \E i \in 1..Len(s) : s[i] = c
    THEN CHOOSE i \in 1..Len(s) : s[i] = c /\ \A j \in 1..(i - 1) : s[j] # c
    ELSE 0

LastIndexOf(s, c) ==
    IF \E i \in 1..Len(s) : s[i] = c
    THEN CHOOSE i \in 1..Len(s) : s[i] = c /\ \A j \in (i + 1)..Len(s) : s[j] # c
    ELSE 0

Count(s, c) == Cardinality({i \in 1..Len(s) : s[i] = c})

\* str -> float as the lax float validator parses it, in hundredths: digits with
\* at most one point and at most two digits after it.
FloatParses(s) ==
    LET p == IndexOf(s, ".")
    IN  IF p = 0 THEN IsDigits(s)
        ELSE /\ IsDigits(SubSeq(s, 1, p - 1))
             /\ Len(s) - p \in 1..2
             /\ IsDigits(SubSeq(s, p + 1, Len(s)))

ParseFloat(s) ==
    LET p == IndexOf(s, ".")
        frac == SubSeq(s, p + 1, Len(s))
    IN  IF p = 0 THEN 100 * DigitsVal(s)
        ELSE 100 * DigitsVal(SubSeq(s, 1, p - 1))
             + (IF Len(frac) = 1 THEN 10 * DigitsVal(frac) ELSE DigitsVal(frac))

Lower == <<"a", "b", "c", "d", "e", "f", "g", "h", "i", "j", "k", "l", "m",
           "n", "o", "p", "q", "r", "s", "t", "u", "v", "w", "x", "y", "z">>

UpperOf == <<"A", "B", "C", "D", "E", "F", "G", "H", "I", "J", "K", "L", "M",
             "N", "O", "P", "Q", "R", "S", "T", "U", "V", "W", "X", "Y", "Z">>

\* str.upper(), character by character.
UpperChar(c) ==
    IF \E i \in 1..26 : Lower[i] = c
    THEN UpperOf[CHOOSE i \in 1..26 : Lower[i] = c]
    ELSE c

Upper(s) == [i \in 1..Len(s) |-> UpperChar(s[i])]

\* -------------------------------------------------- results of a validator
\* A validator returns the validated value (ok), a list of line errors
\* (errs: loc relative to the field, pydantic's error type, the message of a
\* custom error), or an exception that is no validation error (fault).  calls
\* logs, in order, the validators that ran and the value each one was given.
\* Validators chain: each takes the result of the one before it and passes a
\* failure through untouched.
Err(type, msg) == [loc |-> <<>>, type |-> type, msg |-> msg]

Ok(v) == [ok |-> TRUE, v |-> v, errs |-> <<>>, fault |-> "", calls |-> <<>>]

Fail(type, msg) ==
    [ok |-> FALSE, v |-> PyNone, errs |-> <<Err(type, msg)>>, fault |-> "",
     calls |-> <<>>]

Fault(exc) ==
    [ok |-> FALSE, v |-> PyNone, errs |-> <<>>, fault |-> exc, calls |-> <<>>]

\* Validator fn ran on r's value and gave n.
Called(fn, r, n) ==
    [n EXCEPT !.calls = r.calls \o <<[fn |-> fn, arg |-> r.v, at |-> <<>>]>>]

\* A constraint of the validator that ran last gave n.
Checked(r, n) == [n EXCEPT !.calls = r.calls]

At(name, r) ==
    [r EXCEPT !.errs = [i \in 1..Len(r.errs) |->
                           [r.errs[i] EXCEPT !.loc = <<name>> \o @]],
              !.calls = [i \in 1..Len(r.calls) |->
                            [r.calls[i] EXCEPT !.at = <<name>> \o @]]]

Idx(i) == <<"0", "1", "2", "3", "4", "5", "6", "7", "8", "9", "10", "11", "12">>[i]

RECURSIVE SetToSeq(_)
SetToSeq(S) ==
    IF S = {} THEN <<>>
    ELSE LET x == CHOOSE y \in S : TRUE IN <<x>> \o SetToSeq(S \ {x})

\* ------------------------------------------- the built-in type validators
\* str: no coercion from other types.
StrType(r) ==
    IF ~r.ok THEN r
    ELSE Called("str", r, IF r.v.t = "str" THEN Ok(r.v) ELSE Fail("string_type", ""))

MaxLength(n, r) ==
    IF ~r.ok THEN r
    ELSE Checked(r, IF Len(r.v.v) > n THEN Fail("string_too_long", "") ELSE Ok(r.v))

MinLength(n, r) ==
    IF ~r.ok THEN r
    ELSE Checked(r, IF Len(r.v.v) < n THEN Fail("string_too_short", "") ELSE Ok(r.v))

\* int, lax: an int is kept, a str is parsed, a float with no fraction converts.
IntLax(r) ==
    IF ~r.ok THEN r
    ELSE Called("int", r,
            CASE r.v.t = "int" -> Ok(r.v)
              [] r.v.t = "str" -> IF IntParses(r.v.v) THEN Ok(PyInt(ParseInt(r.v.v)))
                                  ELSE Fail("int_parsing", "")
              [] r.v.t = "float" -> IF r.v.v % 100 = 0 THEN Ok(PyInt(r.v.v \div 100))
                                    ELSE Fail("int_from_float", "")
              [] OTHER -> Fail("int_type", ""))

\* float, lax: a float is kept, an int converts, a str is parsed.
FloatLax(r) ==
    IF ~r.ok THEN r
    ELSE Called("float", r,
            CASE r.v.t = "float" -> Ok(r.v)
              [] r.v.t = "int" -> Ok(PyFloat(100 * r.v.v))
              [] r.v.t = "str" -> IF FloatParses(r.v.v) THEN Ok(PyFloat(ParseFloat(r.v.v)))
                                  ELSE Fail("float_parsing", "")
              [] OTHER -> Fail("float_type", ""))

\* float, strict=True: a str is never parsed.
FloatStrict(r) ==
    IF ~r.ok THEN r
    ELSE Called("float", r,
            CASE r.v.t = "float" -> Ok(r.v)
              [] r.v.t = "int" -> Ok(PyFloat(100 * r.v.v))
              [] OTHER -> Fail("float_type", ""))

\* bool: inputs are sampled among bool, None and values that are no truth word.
BoolType(r) ==
    IF ~r.ok THEN r
    ELSE Called("bool", r, IF r.v.t = "bool" THEN Ok(r.v) ELSE Fail("bool_type", ""))

\* The bound n in the unit of x (floats are held in hundredths).
Unit(x, n) == IF x.t = "float" THEN 100 * n ELSE n

Gt(n, r) ==
    IF ~r.ok THEN r
    ELSE Checked(r, IF r.v.v > Unit(r.v, n) THEN Ok(r.v) ELSE Fail("greater_than", ""))

\* Lt with the bound taken as inclusive.
LtInclusive(n, r) ==
    IF ~r.ok THEN r
    ELSE Checked(r, IF r.v.v <= Unit(r.v, n) THEN Ok(r.v) ELSE Fail("less_than", ""))

Lt(n, r) ==
    IF ~r.ok THEN r
    ELSE Checked(r, IF r.v.v < Unit(r.v, n) THEN Ok(r.v) ELSE Fail("less_than", ""))

Ge(n, r) ==
    IF ~r.ok THEN r
    ELSE Checked(r, IF r.v.v >= Unit(r.v, n) THEN Ok(r.v)
                    ELSE Fail("greater_than_equal", ""))

Le(n, r) ==
    IF ~r.ok THEN r
    ELSE Checked(r, IF r.v.v <= Unit(r.v, n) THEN Ok(r.v)
                    ELSE Fail("less_than_equal", ""))

\* List[str] with max_length: the length is checked, then every item.
ListOfStr(n, r) ==
    IF ~r.ok THEN r
    ELSE Called("list", r,
            IF r.v.t # "list" THEN Fail("list_type", "")
            ELSE IF Len(r.v.v) > n THEN Fail("too_long", "")
            ELSE LET es == SelectSeq(
                         [i \in 1..Len(r.v.v) |->
                             IF r.v.v[i].t = "str" THEN Err("", "")
                             ELSE [loc |-> <<Idx(i)>>, type |-> "string_type",
                                   msg |-> ""]],
                         LAMBDA e : e.type # "")
                 IN  IF es = <<>> THEN Ok(r.v) ELSE [Fail("", "") EXCEPT !.errs = es])

\* Optional[List[str]] with max_length: None is valid as it is.
OptionalListOfStr(n, r) ==
    IF ~r.ok THEN r
    ELSE IF r.v.t = "none" THEN Called("none", r, Ok(r.v))
    ELSE ListOfStr(n, r)

\* Dict[str, str]: every value must be a str (keys are strings throughout).
DictStrStr(r) ==
    IF ~r.ok THEN r
    ELSE Called("dict", r,
            IF r.v.t # "dict" THEN Fail("dict_type", "")
            ELSE LET bad == SetToSeq({k \in DOMAIN r.v.v : r.v.v[k].t # "str"})
                 IN  IF bad = <<>> THEN Ok(r.v)
                     ELSE [Fail("", "") EXCEPT !.errs =
                              [i \in 1..Len(bad) |->
                                  [loc |-> <<bad[i]>>, type |-> "string_type",
                                   msg |-> ""]]])

\* EmailStr: a str with one "@", a non-empty local part and a dotted domain.
IsEmail(s) ==
    LET a == IndexOf(s, "@")
        dom == SubSeq(s, a + 1, Len(s))
    IN  /\ Count(s, "@") = 1
        /\ a > 1
        /\ Len(dom) >= 3
        /\ IndexOf(dom, ".") > 1
        /\ LastIndexOf(dom, ".") < Len(dom)
        /\ Count(s, " ") = 0

EmailStr(r) ==
    IF ~r.ok THEN r
    ELSE Called("email", r,
            IF r.v.t # "str" THEN Fail("string_type", "")
            ELSE IF IsEmail(r.v.v) THEN Ok(r.v)
            ELSE Fail("value_error", "value is not a valid email address"))

\* AnyUrl: a str "<scheme>://<rest>" parses to a Url; a Url is kept.
IsUrl(s) ==
    LET c == IndexOf(s, ":")
    IN  /\ c > 1
        /\ \A i \in 1..(c - 1) : \E j \in 1..26 : Lower[j] = s[i]
        /\ Len(s) >= c + 3
        /\ s[c + 1] = "/" /\ s[c + 2] = "/"

AnyUrl(r) ==
    IF ~r.ok THEN r
    ELSE Called("url", r,
            CASE r.v.t = "url" -> Ok(r.v)
              [] r.v.t = "str" -> IF IsUrl(r.v.v) THEN Ok(PyUrl(r.v.v))
                                  ELSE Fail("url_parsing", "")
              [] OTHER -> Fail("url_type", ""))

\* ------------------------------------------------ fields of a BaseModel
\* The accumulator of one BaseModel validation: the values so far, fields_set,
\* the line errors of every field so far, and the exception that ended it.
Start == [v |-> <<>>, set |-> {}, errs |-> <<>>, fault |-> "", calls |-> <<>>]

Put(f, k, x) == [j \in DOMAIN f \cup {k} |-> IF j = k THEN x ELSE f[j]]

\* Merge as a validator that stops at the first failing field would do it.
MergeFirstOnly(acc, name, r, supplied) ==
    IF acc.fault # "" \/ acc.errs # <<>> THEN acc
    ELSE [v |-> IF r.ok THEN Put(acc.v, name, r.v) ELSE acc.v,
          set |-> IF supplied THEN acc.set \cup {name} ELSE acc.set,
          errs |-> acc.errs \o At(name, r).errs,
          fault |-> r.fault,
          calls |-> acc.calls \o At(name, r).calls]

\* The result r of field name joins the accumulator: errors of every field are
\* kept; only an exception that is no validation error ends the validation.
Merge(acc, name, r, supplied) ==
    IF acc.fault # "" THEN acc
    ELSE [v |-> IF r.ok THEN Put(acc.v, name, r.v) ELSE acc.v,
          set |-> IF supplied THEN acc.set \cup {name} ELSE acc.set,
          errs |-> acc.errs \o At(name, r).errs,
          fault |-> r.fault,
          calls |-> acc.calls \o At(name, r).calls]

NoDefault == [t |-> "absent"]

\* What a BaseModel construction ends with: the instance, a ValidationError
\* with every line error, or the exception a validator let escape.
Outcome(acc) ==
    IF acc.fault # "" THEN
        [kind |-> "fault", exc |-> acc.fault, calls |-> acc.calls]
    ELSE IF acc.errs # <<>> THEN
        [kind |-> "errors", errs |-> acc.errs, calls |-> acc.calls]
    ELSE [kind |-> "record", v |-> acc.v, set |-> acc.set, calls |-> acc.calls]

\* A field whose type is a BaseModel, given a dict: the nested validation's
\* instance, or its line errors with their own loc.
Nested(acc) ==
    IF acc.errs = <<>> THEN [Ok(PyModel(acc.v, acc.set)) EXCEPT !.calls = acc.calls]
    ELSE [Fail("", "") EXCEPT !.errs = acc.errs, !.calls = acc.calls]

\* BaseModel.__init__ of the schema named s, defined below its field tables.
RECURSIVE BaseModel(_, _)

\* ------------------------------------------------------- src/1_pydantic.py
Name50(x) == MaxLength(50, StrType(Ok(x)))

AgeLt25(r) == Lt(25, Gt(0, IntLax(r)))

\* The weight field without strict=True.
WeightNotStrict(x) == Gt(0, FloatLax(Ok(x)))

WeightStrict(x) == Gt(0, FloatStrict(Ok(x)))

Allergies5(x) == OptionalListOfStr(5, Ok(x))

NoAllergies == PyStr(<<"N", "o", " ", "a", "l", "l", "e", "r", "g", "i", "e", "s">>)

Fields1 ==
    <<"name", "email", "linkedin", "age", "weight", "married", "allergies",
      "contact_details">>

Field1(f, x) ==
    CASE f = "name" -> Name50(x)
      [] f = "email" -> EmailStr(Ok(x))
      [] f = "linkedin" -> AnyUrl(Ok(x))
      [] f = "age" -> AgeLt25(Ok(x))
      [] f = "weight" -> WeightStrict(x)
      [] f = "married" -> BoolType(Ok(x))
      [] f = "allergies" -> Allergies5(x)
      [] f = "contact_details" -> DictStrStr(Ok(x))

Default1 ==
    [name |-> NoDefault, email |-> NoDefault, linkedin |-> NoDefault,
     age |-> NoDefault, weight |-> NoDefault, married |-> PyNone,
     allergies |-> NoAllergies, contact_details |-> NoDefault]

\* ------------------------------------------------ src/2_field_validator.py
hdfc == <<"h", "d", "f", "c", ".", "c", "o", "m">>

icici == <<"i", "c", "i", "c", "i", ".", "c", "o", "m">>

valid_domains == {hdfc, icici}

\* value.split('@')[-1]: what follows the last "@" (all of it when there is none).
email_validator(r) ==
    IF ~r.ok THEN r
    ELSE LET value == r.v
             domain_name ==
                 SubSeq(value.v, LastIndexOf(value.v, "@") + 1, Len(value.v))
         IN  Called("email_validator", r,
                 IF domain_name \notin valid_domains
                 THEN Fail("value_error", "Not a valid domain")
                 ELSE Ok(value))

transform_name(r) ==
    IF ~r.ok THEN r
    ELSE Called("transform_name", r, Ok(PyStr(Upper(r.v.v))))

\* 0 < value < 50 on the value as given: Python orders numbers only, and
\* raises TypeError for a str, None or a container.
validate_age(r) ==
    IF ~r.ok THEN r
    ELSE LET value == r.v
         IN  Called("validate_age", r,
                 IF value.t \in {"int", "float"}
                 THEN IF 0 < value.v /\ value.v < Unit(value, 50) THEN Ok(value)
                      ELSE Fail("value_error", "Age should be in between 0 and 50")
                 ELSE Fault("TypeError"))

Name2(x) == transform_name(Name50(x))

Email2(x) == email_validator(EmailStr(Ok(x)))

\* validate_age declared without mode='before': it runs after the built-ins.
Age2After(x) == validate_age(AgeLt25(Ok(x)))

Age2(x) == AgeLt25(validate_age(Ok(x)))

Field2(f, x) ==
    CASE f = "name" -> Name2(x)
      [] f = "email" -> Email2(x)
      [] f = "age" -> Age2(x)
      [] OTHER -> Field1(f, x)

\* ------------------------------------------------ src/3_model_validator.py
\* mode='after': runs on the built instance once every field has validated;
\* its ValueError is a line error with loc ().
validate_emergency_contact(acc) ==
    IF acc.fault # "" \/ acc.errs # <<>> THEN acc
    ELSE LET model == PyModel(acc.v, acc.set)
             call == [fn |-> "validate_emergency_contact", arg |-> model, at |-> <<>>]
         IN  IF /\ model.v.age.v > 60
                /\ "emergency" \notin DOMAIN model.v.contact_details.v
             THEN [acc EXCEPT
                      !.errs = <<Err("value_error",
                                     "patients older than 60 must have emergency contact")>>,
                      !.calls = @ \o <<call>>]
             ELSE [acc EXCEPT !.calls = @ \o <<call>>]

\* ------------------------------------------------ src/4_computed_fields.py
AgeLt120(x) == Lt(120, Gt(0, IntLax(Ok(x))))

FloatGt0(x) == Gt(0, FloatLax(Ok(x)))

Allergies10(x) == ListOfStr(10, Ok(x))

Fields4 ==
    <<"name", "email", "linkedin", "age", "weight", "height", "married",
      "allergies", "contact_details">>

Field4(f, x) ==
    CASE f = "name" -> Name50(x)
      [] f = "email" -> EmailStr(Ok(x))
      [] f = "linkedin" -> AnyUrl(Ok(x))
      [] f = "age" -> AgeLt120(x)
      [] f = "weight" -> FloatGt0(x)
      [] f = "height" -> FloatGt0(x)
      [] f = "married" -> BoolType(Ok(x))
      [] f = "allergies" -> Allergies10(x)
      [] f = "contact_details" -> DictStrStr(Ok(x))

\* married: default=False; allergies: default_factory=list.
Default4 ==
    [name |-> NoDefault, email |-> NoDefault, linkedin |-> NoDefault,
     age |-> NoDefault, weight |-> NoDefault, height |-> NoDefault,
     married |-> PyBool(FALSE), allergies |-> PyList(<<>>),
     contact_details |-> NoDefault]

\* round(num / den): the nearest integer, a tie going to the even one.  (The
\* sampled weights and heights give no tie, where the float's binary error
\* would decide.)
round(num, den) ==
    LET q == num \div den
        rem == num % den
    IN  IF 2 * rem > den \/ (2 * rem = den /\ q % 2 = 1) THEN q + 1 ELSE q

\* weight / height instead of weight / height ** 2.
calculate_bmiNoSquare(self) ==
    PyFloat(round(100 * self.weight.v, self.height.v))

\* @computed_field @property calculate_bmi: round(weight / height ** 2, 2) of
\* the instance's current weight and height, evaluated at every read.  With
\* floats in hundredths, the result in hundredths is 10000 * W / H^2.
calculate_bmi(self) ==
    PyFloat(round(10000 * self.weight.v, self.height.v * self.height.v))

\* --------------------------------------------------- src/5_nested_models.py
Min2(x) == MinLength(2, StrType(Ok(x)))

Pin(x) == Le(999999, Ge(100000, IntLax(Ok(x))))

male == <<"m", "a", "l", "e">>

female == <<"f", "e", "m", "a", "l", "e">>

other == <<"o", "t", "h", "e", "r">>

\* pattern="^(male|female|other)$"
Pattern(r) ==
    IF ~r.ok THEN r
    ELSE Checked(r, IF r.v.v \in {male, female, other} THEN Ok(r.v)
                    ELSE Fail("string_pattern_mismatch", ""))

Gender(x) == Pattern(StrType(Ok(x)))

AddressFields == <<"city", "state", "pin">>

AddressField5(f, x) ==
    CASE f = "city" -> Min2(x) [] f = "state" -> Min2(x) [] f = "pin" -> Pin(x)

AddressDefault == [city |-> NoDefault, state |-> NoDefault, pin |-> NoDefault]

\* A nested failure reported as one error of the parent field.
AddressTypeFlat(s, x) ==
    Called("Address", Ok(x),
        CASE x.t = "model" -> Ok(x)
          [] x.t = "dict" -> IF BaseModel(s, x.v).errs = <<>> THEN Nested(BaseModel(s, x.v))
                             ELSE Fail("model_type", "")
          [] OTHER -> Fail("model_type", ""))

\* address: Address.  An instance is kept as it is, a dict is validated as
\* the Address schema s, anything else is no Address.
AddressType(s, x) ==
    LET n == CASE x.t = "model" -> Ok(x)
               [] x.t = "dict" -> Nested(BaseModel(s, x.v))
               [] OTHER -> Fail("model_type", "")
    IN  [n EXCEPT !.calls = <<[fn |-> "Address", arg |-> x, at |-> <<>>]>> \o @]

Fields5 == <<"name", "gender", "age", "address">>

Field5(f, x) ==
    CASE f = "name" -> Name50(x)
      [] f = "gender" -> Gender(x)
      [] f = "age" -> AgeLt120(x)
      [] f = "address" -> AddressType("Address5", x)

Default5 ==
    [name |-> NoDefault, gender |-> NoDefault, age |-> NoDefault,
     address |-> NoDefault]

\* --------------------------------------------------- src/6_serialization.py
AddressField6(f, x) ==
    CASE f = "city" -> StrType(Ok(x))
      [] f = "state" -> StrType(Ok(x))
      [] f = "pin" -> IntLax(Ok(x))

User == PyStr(<<"U", "s", "e", "r">>)

Field6(f, x) ==
    CASE f = "name" -> StrType(Ok(x))
      [] f = "gender" -> StrType(Ok(x))
      [] f = "age" -> IntLax(Ok(x))
      [] f = "address" -> AddressType("Address6", x)

Default6 == [Default5 EXCEPT !.name = User]

\* ------------------------------------------------------------ the schemas
\* The fields of schema s in declaration order, the validator of each, and
\* the declared defaults.  Patient1..Patient6 are the Patient classes of the
\* six scripts; scripts 1 to 3 declare the same fields.
FieldsOf(s) ==
    CASE s \in {"Patient1", "Patient2", "Patient3"} -> Fields1
      [] s = "Patient4" -> Fields4
      [] s \in {"Patient5", "Patient6"} -> Fields5
      [] s \in {"Address5", "Address6"} -> AddressFields

FieldOf(s, f, x) ==
    CASE s \in {"Patient1", "Patient3"} -> Field1(f, x)
      [] s = "Patient2" -> Field2(f, x)
      [] s = "Patient4" -> Field4(f, x)
      [] s = "Patient5" -> Field5(f, x)
      [] s = "Patient6" -> Field6(f, x)
      [] s = "Address5" -> AddressField5(f, x)
      [] s = "Address6" -> AddressField6(f, x)

DefaultOf(s) ==
    CASE s \in {"Patient1", "Patient2", "Patient3"} -> Default1
      [] s = "Patient4" -> Default4
      [] s = "Patient5" -> Default5
      [] s = "Patient6" -> Default6
      [] s \in {"Address5", "Address6"} -> AddressDefault

\* BaseModel.__init__ with declared defaults ignored.
BaseModelNoDefaults(s, data) ==
    LET fields == FieldsOf(s)
        run[i \in 0..Len(fields)] ==
            IF i = 0 THEN Start
            ELSE LET f == fields[i]
                 IN  IF f \in DOMAIN data
                     THEN Merge(run[i - 1], f, FieldOf(s, f, data[f]), TRUE)
                     ELSE Merge(run[i - 1], f, Fail("missing", ""), FALSE)
    IN  run[Len(fields)]

\* BaseModel.__init__(**data): the fields in declaration order, each one
\* validated when data supplies it, else given its default as it is (defaults
\* are not validated), else reported "missing".  Every field is attempted.
BaseModel(s, data) ==
    LET fields == FieldsOf(s)
        run[i \in 0..Len(fields)] ==
            IF i = 0 THEN Start
            ELSE LET f == fields[i]
                 IN  IF f \in DOMAIN data
                     THEN Merge(run[i - 1], f, FieldOf(s, f, data[f]), TRUE)
                     ELSE IF DefaultOf(s)[f] # NoDefault
                     THEN Merge(run[i - 1], f, Ok(DefaultOf(s)[f]), FALSE)
                     ELSE Merge(run[i - 1], f, Fail("missing", ""), FALSE)
    IN  run[Len(fields)]

\* model_dump(include=, exclude=, exclude_unset=), python mode: a key is kept
\* when include names it (if given), exclude does not, and, under
\* exclude_unset, it is in fields_set; a nested model is dumped to a dict with
\* the same exclude_unset.  An option not given is [on |-> FALSE].
\* exclude_unset taken as "drop the fields that hold their default value".
KeptExcludeDefaults(m, o) ==
    {k \in DOMAIN m.v :
        /\ o.include.on => k \in o.include.s
        /\ o.exclude.on => k \notin o.exclude.s
        /\ o.exclude_unset => m.v[k] # PyStr(<<"U", "s", "e", "r">>)}

Kept(m, o) ==
    {k \in DOMAIN m.v :
        /\ o.include.on => k \in o.include.s
        /\ o.exclude.on => k \notin o.exclude.s
        /\ o.exclude_unset => k \in m.set}

RECURSIVE ToPython(_, _)
ToPython(x, unset) ==
    IF x.t = "model"
    THEN PyDict([k \in {j \in DOMAIN x.v : unset => j \in x.set} |->
                    ToPython(x.v[k], unset)])
    ELSE x

model_dump(m, o) == [k \in Kept(m, o) |-> ToPython(m.v[k], o.exclude_unset)]

NotGiven == [on |-> FALSE, s |-> {}]

Given(S) == [on |-> TRUE, s |-> S]

Plain == [include |-> NotGiven, exclude |-> NotGiven, exclude_unset |-> FALSE]

\* model_dump of script n's Patient: the Patient of script 4 also serializes
\* its computed field, under the property's name.
Serialize(n, m, o) ==
    IF n = 4 THEN Put(model_dump(m, o), "calculate_bmi", calculate_bmi(m.v))
    ELSE model_dump(m, o)

\* ----------------------------------------------------------------- inputs
\* The mappings given to Patient: the scripts' own patient_info values and
\* their neighbours (a bound's two sides, another type, the key left out).
harsha == <<"h", "a", "r", "s", "h", "a">>

gmailAddr == <<"a", "b", "c", "@", "g", "m", "a", "i", "l", ".", "c", "o", "m">>

hdfcAddr == <<"a", "b", "c", "@">> \o hdfc

notEmail == <<"a", "b", "c">>

linkedin == <<"h", "t", "t", "p", ":", "/", "/", "l", "i", "n", "k", "e", "d",
              "i", "n", ".", "c", "o", "m", "/">>

notUrl == <<"l", "i", "n", "k", "e", "d", "i", "n">>

phone == PyStr(<<"1", "2", "3", "4", "5">>)

pollen == PyStr(<<"p", "o", "l", "l", "e", "n">>)

Absent == NoDefault

Strip(r) == [k \in {j \in DOMAIN r : r[j].t # "absent"} |-> r[k]]

contact == PyDict([email |-> PyStr(gmailAddr), phone |-> phone])

contactEmergency ==
    PyDict([email |-> PyStr(gmailAddr), phone |-> phone, emergency |-> phone])

contactBad == PyDict([email |-> PyStr(gmailAddr), phone |-> PyInt(12345)])

\* Every string of at most MaxStrLen characters over a digit alphabet with a
\* sign and a letter: "22", "28", "-2", "2a", "", ...
NumStrs ==
    {PyStr(s) : s \in UNION {[1..n -> {"2", "8", "-", "a"}] : n \in 0..MaxStrLen}}

Ints(bounds) == {PyInt(n) : n \in UNION {Near(c) : c \in bounds}}

Names == {PyStr(Repeat("x", n)) : n \in Near(50)} \cup {PyStr(harsha), PyInt(7)}

Weights ==
    {PyFloat(h) : h \in Near(0) \cup {4420}}
        \cup {PyStr(<<"4", "4", ".", "2">>), PyStr(<<"2", "2">>), PyStr(notEmail),
              PyNone}

Lists(n) == {PyList(Repeat(pollen, k)) : k \in (n - Delta)..(n + Delta)}

\* patient_info of src/1_pydantic.py (lines 64-71) with every key present.
Info1 ==
    [name |-> PyStr(harsha), email |-> PyStr(gmailAddr), linkedin |-> PyStr(linkedin),
     age |-> PyStr(<<"2", "2">>), weight |-> PyFloat(4420), married |-> Absent,
     allergies |-> Absent, contact_details |-> contact]

Raw1 ==
    [name : {PyStr(harsha), PyStr(Repeat("x", 50 + Delta)), Absent},
     email : {PyStr(gmailAddr), PyStr(notEmail)},
     linkedin : {PyStr(linkedin), PyStr(notUrl)},
     age : {PyStr(<<"2", "2">>), PyInt(25), Absent},
     weight : {PyFloat(4420), PyStr(<<"4", "4", ".", "2">>), Absent},
     married : {Absent, PyBool(TRUE)},
     allergies : {Absent, PyList(<<pollen, pollen>>), PyList(<<pollen, PyInt(1)>>)},
     contact_details : {contact, contactBad, Absent}]
    \cup {[Info1 EXCEPT !.age = a, !.name = n] :
             a \in Ints({0, 25}) \cup NumStrs \cup {PyNone}, n \in Names}
    \cup {[Info1 EXCEPT !.weight = w, !.age = a] :
             w \in Weights, a \in {PyStr(<<"2", "2">>), PyInt(25)}}
    \cup {[Info1 EXCEPT !.allergies = l, !.married = m] :
             l \in Lists(5) \cup {PyNone, NoAllergies,
                                  PyList(<<PyInt(1), pollen, PyInt(2)>>)},
             m \in {Absent, PyBool(FALSE), PyNone}}

\* patient_info of src/2_field_validator.py (lines 122-131).
Info2 == [Info1 EXCEPT !.email = PyStr(hdfcAddr), !.age = PyInt(28)]

Raw2 ==
    [name : {PyStr(harsha), Absent},
     email : {PyStr(hdfcAddr), PyStr(gmailAddr), PyStr(notEmail)},
     linkedin : {PyStr(linkedin), PyStr(notUrl)},
     age : {PyInt(24), PyInt(28), PyInt(50), PyStr(<<"2", "2">>), Absent},
     weight : {PyFloat(4420), PyStr(<<"4", "4", ".", "2">>)},
     married : {Absent, PyBool(TRUE)},
     allergies : {Absent, PyList(<<pollen, pollen>>)},
     contact_details : {contact, Absent}]
    \cup {[Info2 EXCEPT !.age = a, !.name = n] :
             a \in Ints({0, 25, 50}) \cup NumStrs \cup {PyNone, PyFloat(2250)},
             n \in {PyStr(harsha), PyStr(<<"A", "b", "1">>), PyInt(7)}}
    \cup {[Info2 EXCEPT !.email = e] :
             e \in {PyStr(<<"a", "@">> \o icici), PyStr(<<"a", "@", "b", "@">> \o hdfc),
                    PyStr(hdfc), PyInt(7)}}

\* patient_info of src/3_model_validator.py (lines 90-99).
Info3 == [Info1 EXCEPT !.email = PyStr(hdfcAddr), !.age = PyStr(<<"2", "8">>)]

Raw3 ==
    [name : {PyStr(harsha), Absent},
     email : {PyStr(hdfcAddr), PyStr(notEmail)},
     linkedin : {PyStr(linkedin)},
     age : {PyStr(<<"2", "8">>), PyInt(22), PyInt(61), Absent},
     weight : {PyFloat(4420), PyStr(<<"4", "4", ".", "2">>)},
     married : {Absent, PyBool(TRUE), PyNone},
     allergies : {Absent, PyList(<<pollen, pollen>>), PyNone},
     contact_details : {contact, contactEmergency, contactBad, Absent}]
    \cup {[Info3 EXCEPT !.age = a, !.contact_details = c] :
             a \in Ints({0, 25, 60}) \cup NumStrs,
             c \in {contact, contactEmergency}}

\* patient_info of src/4_computed_fields.py (lines 91-101).
Info4 ==
    [name |-> PyStr(harsha), email |-> PyStr(hdfcAddr), linkedin |-> PyStr(linkedin),
     age |-> PyStr(<<"2", "8">>), weight |-> PyFloat(7520), height |-> PyFloat(172),
     married |-> PyBool(TRUE), allergies |-> PyList(<<pollen, pollen>>),
     contact_details |-> contact]

Raw4 ==
    [name : {PyStr(harsha), Absent},
     email : {PyStr(hdfcAddr)},
     linkedin : {PyStr(linkedin), Absent},
     age : {PyStr(<<"2", "8">>), PyInt(120), Absent},
     weight : {PyFloat(7520), PyStr(<<"7", "5", ".", "2">>), Absent},
     height : {PyFloat(172), PyFloat(0), Absent},
     married : {Absent, PyBool(TRUE), PyBool(FALSE)},
     allergies : {Absent, PyList(<<pollen, pollen>>), PyList(<<>>)},
     contact_details : {contact, Absent}]
    \cup {[Info4 EXCEPT !.age = a, !.allergies = l] :
             a \in Ints({0, 120}), l \in Lists(10) \cup {Absent}}
    \cup {Put([Info4 EXCEPT !.weight = w, !.height = h], "calculate_bmi", b) :
             w \in {PyFloat(7520), PyFloat(8000), PyInt(75)},
             h \in {PyFloat(172), PyFloat(180)},
             b \in {Absent, PyFloat(9999), PyStr(notEmail)}}

\* address_dict and patient_dict of src/5_nested_models.py (lines 69-81).
pune == <<"P", "u", "n", "e">>

AddressDicts ==
    {PyDict(Strip(r)) :
        r \in [city : {PyStr(pune), PyStr(<<"P">>), Absent},
               state : {PyStr(<<"M", "H">>), PyStr(<<"M">>)},
               pin : Ints({100000, 999999})
                       \cup {PyStr(<<"4", "1", "1", "0", "1", "4">>), PyStr(pune),
                             Absent}]}

Instances(s) ==
    {PyModel(BaseModel(s, d.v).v, BaseModel(s, d.v).set) :
        d \in {a \in AddressDicts : BaseModel(s, a.v).errs = <<>>}}

Raw5 ==
    [name : {PyStr(harsha), PyStr(Repeat("x", 50 + Delta))},
     gender : {PyStr(female), PyStr(harsha), Absent},
     age : {PyStr(<<"2", "8">>), PyInt(120), Absent},
     address : AddressDicts \cup Instances("Address5") \cup {PyStr(pune), Absent}]

\* address_dict and patient_dict of src/6_serialization.py (lines 50-62).
address_dict6 ==
    PyDict([city |-> PyStr(pune), state |-> PyStr(<<"M", "H">>),
            pin |-> PyStr(<<"4", "1", "4", "0", "0", "1">>)])

Raw6 ==
    [name : {Absent, User, PyStr(harsha), PyInt(7)},
     gender : {PyStr(female), Absent},
     age : {PyStr(<<"2", "8">>), PyInt(28), PyStr(pune)},
     address : {address_dict6, PyDict([city |-> PyStr(pune)]), Absent,
                PyModel(BaseModel("Address6", address_dict6.v).v,
                        BaseModel("Address6", address_dict6.v).set)}]

Raw(n) ==
    CASE n = 1 -> Raw1 [] n = 2 -> Raw2 [] n = 3 -> Raw3
      [] n = 4 -> Raw4 [] n = 5 -> Raw5 [] n = 6 -> Raw6

Inputs(n) == {Strip(r) : r \in Raw(n)}

\* The keys model_dump's include / exclude are drawn from: fields of the
\* schema of script 6 and one name that is no field.
OptionKeys == {"name", "age", "address", "height"}

FieldSets == {NotGiven} \cup {Given(S) : S \in SUBSET OptionKeys}

Options == [include : FieldSets, exclude : FieldSets, exclude_unset : BOOLEAN]

\* ------------------------------------------------------------ the program
NoOut == [kind |-> "none"]

Init ==
    /\ script \in 1..6
    /\ input \in Inputs(script)
    /\ pc = "input"
    /\ out = NoOut
    /\ opts = Plain
    /\ dump = <<>>
    /\ out2 = NoOut
    /\ bmi = <<>>

SchemaOf(n) ==
    <<"Patient1", "Patient2", "Patient3", "Patient4", "Patient5", "Patient6">>[n]

\* Patient(**data) of script n; script 3 adds its model validator.
Patient(n, data) ==
    IF n = 3 THEN Outcome(validate_emergency_contact(BaseModel("Patient3", data)))
    ELSE Outcome(BaseModel(SchemaOf(n), data))

\* patient1 = Patient(**patient_info)
Construct ==
    /\ pc = "input"
    /\ out' = Patient(script, input)
    /\ pc' = "built"
    /\ UNCHANGED <<script, input, opts, dump, out2, bmi>>

\* patient1.model_dump(...) with the options of script 6's demonstrations
ModelDump ==
    /\ pc = "built"
    /\ out.kind = "record"
    /\ \E o \in Options :
          /\ script # 6 => o = Plain
          /\ opts' = o
          /\ dump' = Serialize(script, out, o)
    /\ pc' = "dumped"
    /\ UNCHANGED <<script, input, out, out2, bmi>>

\* Patient(**patient1.model_dump()): the full dump validated again
Reconstruct ==
    /\ pc = "dumped"
    /\ opts = Plain
    /\ out2' = Patient(script, [k \in DOMAIN dump |-> dump[k]])
    /\ pc' = "rebuilt"
    /\ UNCHANGED <<script, input, out, opts, dump, bmi>>

\* print('BMI:', patient.calculate_bmi): one read of the property
ReadBmi ==
    /\ script = 4
    /\ pc # "input"
    /\ out.kind = "record"
    /\ Len(bmi) < MaxReads
    /\ bmi' = Append(bmi, calculate_bmi(out.v))
    /\ UNCHANGED <<script, input, pc, out, opts, dump, out2>>

Next == Construct \/ ModelDump \/ Reconstruct \/ ReadBmi

Spec == Init /\ [][Next]_vars

\* ------------------------------------------------------------------ claims
Range(q) == {q[i] : i \in 1..Len(q)}

\* Field f of script n's Patient, taken alone, is violated by data: its
\* value fails the field's validators, or it is left out and has no default.
Violates(n, f, data) ==
    IF f \in DOMAIN data THEN ~FieldOf(SchemaOf(n), f, data[f]).ok
    ELSE DefaultOf(SchemaOf(n))[f] = NoDefault

\* The first line error field f alone produces for data, with its loc.
FirstError(n, f, data) ==
    IF f \in DOMAIN data THEN At(f, FieldOf(SchemaOf(n), f, data[f])).errs[1]
    ELSE [loc |-> <<f>>, type |-> "missing", msg |-> ""]

ErrsAt(o, loc) ==
    IF o.kind = "errors" THEN SelectSeq(o.errs, LAMBDA e : e.loc = loc) ELSE <<>>

ErrsUnder(o, f) ==
    IF o.kind = "errors"
    THEN SelectSeq(o.errs, LAMBDA e : Len(e.loc) > 0 /\ e.loc[1] = f)
    ELSE <<>>

CallsAt(o, path) == SelectSeq(o.calls, LAMBDA c : c.at = path)

Built(n) == script = n /\ pc # "input"

\* C1: in script 1, every field that violates its constraints (or is missing)
\* has its own entry in the ValidationError, the first of them being the first
\* failing constraint of that field, whatever the number of failing fields; a
\* field that does not violate has none; and a Patient is returned exactly
\* when no field violates.  (A container field carries one entry per bad item.)
C1_AllViolationsAccumulate ==
    Built(1) =>
        LET bad == {f \in Range(Fields1) : Violates(1, f, input)}
        IN  /\ (out.kind = "record") <=> (bad = {})
            /\ bad # {} =>
                  /\ out.kind = "errors"
                  /\ \A f \in Range(Fields1) :
                        IF f \in bad
                        THEN /\ Len(ErrsUnder(out, f)) >= 1
                             /\ ErrsUnder(out, f)[1] = FirstError(1, f, input)
                             /\ f \notin {"allergies", "contact_details"}
                                    => Len(ErrsUnder(out, f)) = 1
                        ELSE ErrsUnder(out, f) = <<>>

C1_Witness ==
    /\ Built(1)
    /\ Cardinality({f \in Range(Fields1) : Violates(1, f, input)}) >= 3
    /\ "name" \notin DOMAIN input
    /\ out.kind = "errors"
    /\ Len(out.errs) >= 3

\* C2: an int given for age (gt=0, lt=25; scripts 1 and 3) is accepted exactly
\* when 0 < age < 25, with greater_than reported at or below 0 and less_than
\* at or above 25; an int given for Address.pin (ge=100000, le=999999; script 5)
\* is accepted exactly when 100000 <= pin <= 999999.
C2_BoundsAsDeclared ==
    /\ (script \in {1, 3} /\ pc # "input" /\ "age" \in DOMAIN input
            /\ input.age.t = "int") =>
          LET a == input.age.v
          IN  /\ (0 < a /\ a < 25) =>
                    /\ ErrsUnder(out, "age") = <<>>
                    /\ out.kind = "record" => out.v.age = PyInt(a)
              /\ a <= 0 => /\ out.kind = "errors"
                           /\ ErrsUnder(out, "age")
                                 = <<[loc |-> <<"age">>, type |-> "greater_than", msg |-> ""]>>
              /\ a >= 25 => /\ out.kind = "errors"
                            /\ ErrsUnder(out, "age")
                                  = <<[loc |-> <<"age">>, type |-> "less_than", msg |-> ""]>>
    /\ (Built(5) /\ "address" \in DOMAIN input /\ input.address.t = "dict"
            /\ "pin" \in DOMAIN input.address.v /\ input.address.v.pin.t = "int") =>
          LET p == input.address.v.pin.v
          IN  /\ (100000 <= p /\ p <= 999999) =>
                    /\ ErrsAt(out, <<"address", "pin">>) = <<>>
                    /\ out.kind = "record" => out.v.address.v.pin = PyInt(p)
              /\ p < 100000 =>
                    /\ out.kind = "errors"
                    /\ ErrsAt(out, <<"address", "pin">>)
                          = <<[loc |-> <<"address", "pin">>,
                               type |-> "greater_than_equal", msg |-> ""]>>
              /\ p > 999999 =>
                    /\ out.kind = "errors"
                    /\ ErrsAt(out, <<"address", "pin">>)
                          = <<[loc |-> <<"address", "pin">>,
                               type |-> "less_than_equal", msg |-> ""]>>

C2_Witness ==
    /\ Built(5)
    /\ out.kind = "record"
    /\ input.address.t = "dict"
    /\ input.address.v.pin = PyInt(999999)
    /\ out.v.address.v.pin = PyInt(999999)
    /\ out.v.age = PyInt(28)

str22 == PyStr(<<"2", "2">>)

str44_2 == PyStr(<<"4", "4", ".", "2">>)

\* C3: in scripts 1 and 3 a str given for weight (float, strict=True) is never
\* parsed: the outcome is a ValidationError whose only weight entry is
\* float_type, "44.2" included; a str given for age (int, not strict) that
\* parses as an integer is coerced, "22" to the int 22, and gt=0 / lt=25 are
\* then applied to the coerced integer.
C3_StrictVersusLax ==
    (script \in {1, 3} /\ pc # "input") =>
        /\ ("weight" \in DOMAIN input /\ input.weight.t = "str") =>
              /\ out.kind = "errors"
              /\ ErrsUnder(out, "weight")
                    = <<[loc |-> <<"weight">>, type |-> "float_type", msg |-> ""]>>
        /\ ("age" \in DOMAIN input /\ input.age = str22) =>
              /\ ErrsUnder(out, "age") = <<>>
              /\ out.kind = "record" => out.v.age = PyInt(22)
        /\ ("age" \in DOMAIN input /\ input.age.t = "str" /\ IntParses(input.age.v)) =>
              LET a == ParseInt(input.age.v)
              IN  /\ (0 < a /\ a < 25) <=> ErrsUnder(out, "age") = <<>>
                  /\ out.kind = "record" => out.v.age = PyInt(a)
                  /\ \A i \in 1..Len(ErrsUnder(out, "age")) :
                        ErrsUnder(out, "age")[i].type \in {"greater_than", "less_than"}
        /\ ("age" \in DOMAIN input /\ input.age.t = "str" /\ ~IntParses(input.age.v)) =>
              ErrsUnder(out, "age")
                  = <<[loc |-> <<"age">>, type |-> "int_parsing", msg |-> ""]>>

C3_Witness ==
    /\ Built(1)
    /\ {"age", "weight"} \subseteq DOMAIN input
    /\ input.age = str22
    /\ input.weight = str44_2
    /\ out.kind = "errors"
    /\ out.errs = <<[loc |-> <<"weight">>, type |-> "float_type", msg |-> ""]>>

\* C4: in the scripts without a raising mode='before' validator (1, 3, 4, 5,
\* 6), a field left out of the input and declared with a default or a
\* default_factory gets no entry, is not in fields_set and holds the default in
\* the Patient (name 'User' in script 6; married False and allergies [] in
\* script 4); a field left out with neither gets exactly one entry, "missing",
\* and no Patient is built; no supplied or defaulted field is reported missing.
C4_DefaultsAndMissing ==
    (script \in {1, 3, 4, 5, 6} /\ pc # "input") =>
        /\ \A f \in Range(FieldsOf(SchemaOf(script))) \ DOMAIN input :
              IF DefaultOf(SchemaOf(script))[f] # NoDefault
              THEN /\ ErrsUnder(out, f) = <<>>
                   /\ out.kind = "record" =>
                         out.v[f] = DefaultOf(SchemaOf(script))[f] /\ f \notin out.set
              ELSE /\ out.kind = "errors"
                   /\ ErrsUnder(out, f)
                         = <<[loc |-> <<f>>, type |-> "missing", msg |-> ""]>>
        /\ \A f \in Range(FieldsOf(SchemaOf(script))) \cap DOMAIN input :
              \A i \in 1..Len(ErrsAt(out, <<f>>)) : ErrsAt(out, <<f>>)[i].type # "missing"
        /\ (script = 6 /\ "name" \notin DOMAIN input /\ out.kind = "record") =>
              out.v.name = PyStr(<<"U", "s", "e", "r">>)
        /\ (script = 4 /\ out.kind = "record") =>
              /\ "married" \notin DOMAIN input => out.v.married = PyBool(FALSE)
              /\ "allergies" \notin DOMAIN input => out.v.allergies = PyList(<<>>)

C4_Witness ==
    /\ Built(4)
    /\ DOMAIN input = Range(Fields4) \ {"married", "allergies", "linkedin"}
    /\ out.kind = "errors"
    /\ out.errs = <<[loc |-> <<"linkedin">>, type |-> "missing", msg |-> ""]>>

C4_WitnessDefault ==
    /\ Built(6)
    /\ "name" \notin DOMAIN input
    /\ out.kind = "record"
    /\ out.v.name = User

Count3 ==
    Len(SelectSeq(out.calls, LAMBDA c : c.fn = "validate_emergency_contact"))

\* What the field declarations of script 3 alone give for the input.
FieldLevel3 == BaseModel("Patient3", input)

\* The part of C5 that the code keeps: validate_emergency_contact runs at most
\* once, never when a field has failed (the field errors are then the
\* outcome), and otherwise once, after every field validator, on the
\* assembled Patient.
C5_ModelValidatorAfterFields ==
    Built(3) =>
        /\ Count3 <= 1
        /\ FieldLevel3.errs # <<>> =>
              Count3 = 0 /\ out.kind = "errors" /\ out.errs = FieldLevel3.errs
        /\ FieldLevel3.errs = <<>> =>
              /\ Count3 = 1
              /\ out.calls[Len(out.calls)]
                    = [fn |-> "validate_emergency_contact",
                       arg |-> PyModel(FieldLevel3.v, FieldLevel3.set), at |-> <<>>]

C5_ValidatorBranchDead ==
    Built(3) =>
        \A i \in 1..Len(out.calls) :
            out.calls[i].fn = "validate_emergency_contact" => out.calls[i].arg.v.age.v < 25

AgeCalls == CallsAt(out, <<"age">>)

EmailCalls == CallsAt(out, <<"email">>)

NameCalls == CallsAt(out, <<"name">>)

AgeError == [loc |-> <<"age">>, type |-> "value_error",
             msg |-> "Age should be in between 0 and 50"]

DomainError == [loc |-> <<"email">>, type |-> "value_error",
                msg |-> "Not a valid domain"]

\* C6: in script 2, validate_age (mode='before') is the first validator of
\* age and is given the raw input value; the built-in int validator runs only
\* after it returned, on the value it returned, and a ValueError of
\* validate_age is the only age entry.  email_validator and transform_name
\* (mode 'after') run only after the built-in validator of their field
\* succeeded, on the value it produced; the Patient holds what transform_name
\* returned (the upper-cased name), and a ValueError of email_validator is
\* reported at email.
C6_ValidatorPhases ==
    Built(2) =>
        /\ AgeCalls # <<>> =>
              /\ "age" \in DOMAIN input
              /\ AgeCalls[1] = [fn |-> "validate_age", arg |-> input.age, at |-> <<"age">>]
              /\ \A i \in 2..Len(AgeCalls) : AgeCalls[i].fn # "validate_age"
              /\ Len(AgeCalls) >= 2 =>
                    AgeCalls[2] = [fn |-> "int", arg |-> input.age, at |-> <<"age">>]
        /\ ("age" \in DOMAIN input /\ out.kind # "fault") => AgeCalls # <<>>
        /\ ("age" \in DOMAIN input /\ input.age.t = "int" /\ out.kind # "fault") =>
              IF 0 < input.age.v /\ input.age.v < 50
              THEN /\ Len(AgeCalls) = 2
                   /\ input.age.v >= 25 =>
                         ErrsUnder(out, "age")
                             = <<[loc |-> <<"age">>, type |-> "less_than", msg |-> ""]>>
                   /\ input.age.v < 25 => ErrsUnder(out, "age") = <<>>
              ELSE /\ Len(AgeCalls) = 1
                   /\ ErrsUnder(out, "age") = <<AgeError>>
        /\ \A i \in 1..Len(EmailCalls) :
              EmailCalls[i].fn = "email_validator" =>
                  /\ i = 2
                  /\ EmailCalls[1] = [fn |-> "email", arg |-> input.email, at |-> <<"email">>]
                  /\ EmailCalls[2].arg = input.email
                  /\ IsEmail(input.email.v)
        /\ ("email" \in DOMAIN input /\ out.kind = "errors") =>
              (DomainError \in Range(out.errs)) <=>
                  /\ input.email.t = "str"
                  /\ IsEmail(input.email.v)
                  /\ input.email \notin {PyStr(hdfcAddr), PyStr(<<"a", "@">> \o icici)}
        /\ \A i \in 1..Len(NameCalls) :
              NameCalls[i].fn = "transform_name" =>
                  /\ i = 2
                  /\ NameCalls[1] = [fn |-> "str", arg |-> input.name, at |-> <<"name">>]
                  /\ NameCalls[2].arg = input.name
                  /\ Len(input.name.v) <= 50
        /\ out.kind = "record" =>
              /\ Len(out.v.name.v) = Len(input.name.v)
              /\ input.name = PyStr(harsha) =>
                    out.v.name = PyStr(<<"H", "A", "R", "S", "H", "A">>)
              /\ input.name = PyStr(<<"A", "b", "1">>) =>
                    out.v.name = PyStr(<<"A", "B", "1">>)
              /\ out.v.email = input.email

C6_Witness ==
    /\ Built(2)
    /\ {"age", "name"} \subseteq DOMAIN input
    /\ input.age = PyInt(50)
    /\ input.name = PyStr(harsha)
    /\ out.kind = "errors"
    /\ out.errs = <<AgeError>>
    /\ Len(AgeCalls) = 1
    /\ Len(NameCalls) = 2

\* C7: every construction ends with a Patient or with a ValidationError, never
\* with another exception.
C7_NoUncontrolledFault == pc # "input" => out.kind \in {"record", "errors"}

AllFields6 == {"name", "gender", "age", "address"}

\* C8: in script 6 the keys of model_dump are fixed by its options: every
\* field with no option; with exclude_unset alone exactly the fields the input
\* supplied (a supplied 'User' included, a defaulted name left out); with
\* include=S alone the fields in S; with exclude=S alone the fields not in S;
\* and, with several options, the fields that pass each of them.
C8_DumpKeys ==
    (script = 6 /\ pc \in {"dumped", "rebuilt"}) =>
        LET supplied == AllFields6 \cap DOMAIN input
            inc == IF opts.include.on THEN opts.include.s ELSE AllFields6
            exc == IF opts.exclude.on THEN opts.exclude.s ELSE {}
            uns == IF opts.exclude_unset THEN supplied ELSE AllFields6
        IN  /\ opts = Plain => DOMAIN dump = AllFields6
            /\ opts = [Plain EXCEPT !.exclude_unset = TRUE] => DOMAIN dump = supplied
            /\ (opts.include.on /\ ~opts.exclude.on /\ ~opts.exclude_unset) =>
                  DOMAIN dump = AllFields6 \cap opts.include.s
            /\ (opts.exclude.on /\ ~opts.include.on /\ ~opts.exclude_unset) =>
                  DOMAIN dump = AllFields6 \ opts.exclude.s
            /\ DOMAIN dump = (inc \cap uns) \ exc
            /\ \A k \in DOMAIN dump : k # "address" => dump[k] = out.v[k]

C8_Witness ==
    /\ script = 6
    /\ pc = "dumped"
    /\ opts = [Plain EXCEPT !.exclude_unset = TRUE]
    /\ "name" \in DOMAIN input
    /\ input.name = User
    /\ DOMAIN dump = AllFields6

C8_WitnessInclude ==
    /\ script = 6
    /\ pc = "dumped"
    /\ opts = [Plain EXCEPT !.include = Given({"name", "age"})]
    /\ "name" \notin DOMAIN input
    /\ DOMAIN dump = {"name", "age"}

\* C9: the plain model_dump of every Patient, validated against the same
\* schema, gives a Patient with the same field values, also when married and
\* allergies were left out and hold their declared defaults.
C9_RoundTrip ==
    pc = "rebuilt" =>
        /\ out2.kind = "record"
        /\ Serialize(script, out2, Plain) = dump

\* The round trip does hold for every Patient built from an input that
\* supplied married and allergies.
C9_RoundTripWhenSupplied ==
    (pc = "rebuilt" /\ (script \in {1, 2, 3} => {"married", "allergies"} \subseteq DOMAIN input)) =>
        /\ out2.kind = "record"
        /\ Serialize(script, out2, Plain) = dump

\* C10: in script 5, when address is given as a mapping, every Address field
\* it violates is reported at (address, <field>) with the error that field
\* alone produces, every violated sibling (name, gender, age) is reported at
\* its own loc as well, and no Patient is built.
C10_NestedPaths ==
    (Built(5) /\ "address" \in DOMAIN input /\ input.address.t = "dict") =>
        LET a == input.address.v
            badChild == {c \in Range(AddressFields) :
                            IF c \in DOMAIN a THEN ~AddressField5(c, a[c]).ok ELSE TRUE}
            badSibling == {f \in {"name", "gender", "age"} : Violates(5, f, input)}
        IN  /\ \A c \in Range(AddressFields) :
                  IF c \in badChild
                  THEN /\ out.kind = "errors"
                       /\ Len(ErrsAt(out, <<"address", c>>)) = 1
                       /\ ErrsAt(out, <<"address", c>>)[1].type
                             = (IF c \in DOMAIN a
                                THEN AddressField5(c, a[c]).errs[1].type
                                ELSE "missing")
                  ELSE ErrsAt(out, <<"address", c>>) = <<>>
            /\ ErrsAt(out, <<"address">>) = <<>>
            /\ \A f \in {"name", "gender", "age"} :
                  IF f \in badSibling
                  THEN out.kind = "errors" /\ ErrsAt(out, <<f>>) = <<FirstError(5, f, input)>>
                  ELSE ErrsAt(out, <<f>>) = <<>>
            /\ out.kind = "record" <=> (badChild = {} /\ badSibling = {})

C10_Witness ==
    /\ Built(5)
    /\ "address" \in DOMAIN input
    /\ input.address.t = "dict"
    /\ "pin" \in DOMAIN input.address.v
    /\ input.address.v.pin = PyInt(99999)
    /\ "age" \in DOMAIN input
    /\ input.age = PyInt(120)
    /\ out.kind = "errors"
    /\ [loc |-> <<"address", "pin">>, type |-> "greater_than_equal", msg |-> ""]
           \in Range(out.errs)
    /\ [loc |-> <<"age">>, type |-> "less_than", msg |-> ""] \in Range(out.errs)

\* r (in hundredths) is weight / height^2 rounded to 2 decimals, for a weight
\* W and a height H in hundredths: r is within half a hundredth of 10000 W / H^2.
IsBmi(r, W, H) ==
    LET d == r * H * H - 10000 * W
    IN  2 * (IF d < 0 THEN -d ELSE d) <= H * H

Without(data, k) == [j \in DOMAIN data \ {k} |-> data[j]]

\* C11: in script 4, every read of calculate_bmi of a Patient gives a float
\* that is weight / height^2 rounded to 2 decimals for the Patient's validated
\* weight and height; a calculate_bmi given in the input changes nothing of the
\* outcome (it is neither stored, nor in fields_set, nor validated, nor
\* reported); and the plain model_dump holds calculate_bmi with that value,
\* also for the Patient built again from a dump that carries the key.
C11_DerivedField ==
    (script = 4 /\ pc # "input") =>
        /\ out = Patient(4, Without(input, "calculate_bmi"))
        /\ out.kind = "errors" => ErrsUnder(out, "calculate_bmi") = <<>>
        /\ out.kind # "fault"
        /\ CallsAt(out, <<"calculate_bmi">>) = <<>>
        /\ out.kind = "record" =>
              /\ "calculate_bmi" \notin DOMAIN out.v \cup out.set
              /\ \A i \in 1..Len(bmi) :
                    /\ bmi[i].t = "float"
                    /\ IsBmi(bmi[i].v, out.v.weight.v, out.v.height.v)
              /\ pc \in {"dumped", "rebuilt"} =>
                    /\ "calculate_bmi" \in DOMAIN dump
                    /\ dump.calculate_bmi.t = "float"
                    /\ IsBmi(dump.calculate_bmi.v, out.v.weight.v, out.v.height.v)
              /\ pc = "rebuilt" =>
                    /\ out2.kind = "record"
                    /\ "calculate_bmi" \notin DOMAIN out2.v \cup out2.set
                    /\ calculate_bmi(out2.v) = dump.calculate_bmi

\* The script's weight 75.2 and height 1.72 with a calculate_bmi of 99.99 in
\* the input: both reads and the dump give 25.42.
C11_Witness ==
    /\ script = 4
    /\ pc = "dumped"
    /\ "calculate_bmi" \in DOMAIN input
    /\ input.calculate_bmi = PyFloat(9999)
    /\ input.weight = PyFloat(7520)
    /\ input.height = PyFloat(172)
    /\ Len(bmi) >= 2
    /\ bmi[1] = PyFloat(2542)
    /\ bmi[2] = PyFloat(2542)
    /\ dump.calculate_bmi = PyFloat(2542)

\* Another Patient, weight 80.0 and height 1.8, reads 24.69.
C11_WitnessOther ==
    /\ script = 4
    /\ pc # "input"
    /\ out.kind = "record"
    /\ out.v.weight = PyFloat(8000)
    /\ out.v.height = PyFloat(180)
    /\ Len(bmi) >= 1
    /\ bmi[1] = PyFloat(2469)

====
